---- MODULE Spec2Model ----
(***************************************************************************)
(* Model of tree-gen's runtime base library (include/tree-base.hpp): the   *)
(* edge containers Maybe/One/Any/Many/OptLink/Link, the PointerMap based   *)
(* well-formedness check, and the serialize/deserialize entry points with  *)
(* the IdentifierMap link restoration.                                     *)
(*                                                                         *)
(* Nodes live in a heap indexed by address.  An owning edge (shared_ptr)   *)
(* holds an address or Nil; a link (weak_ptr) holds an address, Nil when   *)
(* it was never set or was reset, or Expired once its target is destroyed. *)
(* A node class declares one owning field (sub, a single-child edge, or    *)
(* seq, a sequence edge) followed by one link field lnk.                   *)
(***************************************************************************)
EXTENDS Integers, Sequences, FiniteSets, TLC

\* Bounds of the model: the addresses of the heap, the length of a sequence
\* edge, and the number of filled fields and sequence slots of all nodes.
MaxNodes == 4
MaxLen == 2
MaxEdges == 3

Nodes == 1..MaxNodes

\* A null shared_ptr / a weak_ptr that was never set.
Nil == 0
\* A weak_ptr whose control block has no owner left.
Expired == -1

\* The node classes, each with the edge kinds of the fields it declares.
Classes == <<"Block", "Ref", "Leaf", "Wrap">>

\* The class of the node made at address n, and its scalar content.
ClassOf(n) == Classes[((n - 1) % Len(Classes)) + 1]

DataOf(n) == n % 2

SubKind(c) == CASE c = "Wrap" -> "One" [] c = "Ref" -> "Maybe" [] OTHER -> "none"

SeqKind(c) == CASE c = "Block" -> "Many" [] c = "Leaf" -> "Any" [] OTHER -> "none"

LnkKind(c) == IF c = "Ref" THEN "Link" ELSE "OptLink"

\* A destroyed (or never allocated) address.
DeadRec == [live |-> FALSE, cls |-> "", data |-> 0, sub |-> Nil, seq |-> <<>>, lnk |-> Nil]

\* make<T>(): a node with default-constructed (empty) edges.
make(c, d) == [live |-> TRUE, cls |-> c, data |-> d, sub |-> Nil, seq |-> <<>>, lnk |-> Nil]

VARIABLES heap, root, x, res

vars == <<heap, root, x, res>>

Range(s) == {s[i] : i \in 1..Len(s)}

Live(h) == {n \in DOMAIN h : h[n].live}

\* The nodes an owning edge of node m holds.
Owned(h, m) == ({h[m].sub} \cup Range(h[m].seq)) \ {Nil}

----------------------------------------------------------------------------
\* Edge accessors.

\* Maybe::empty
Maybe_empty(v) == v = Nil

\* Maybe::size
Maybe_size(v) == IF v # Nil THEN 1 ELSE 0

\* OptLink::empty: val.expired(), true for an unset and for an expired link.
OptLink_empty(l) == l = Nil \/ l = Expired

\* OptLink::size
OptLink_size(l) == IF OptLink_empty(l) THEN 0 ELSE 1

\* OptLink::get_ptr: val.lock(), null for an unset or expired link.
OptLink_get_ptr(l) == IF OptLink_empty(l) THEN Nil ELSE l

\* OptLink::deref: the target, or OutOfRange for an unset or expired link.
OptLink_deref(l) ==
    IF OptLink_empty(l) THEN [err |-> "OutOfRange", val |-> Nil]
    ELSE [err |-> "ok", val |-> l]

----------------------------------------------------------------------------
\* Lifetime: shared_ptr reference counting.

\* Links that count as owners of their target.
Held_by_links(h, r, u, n) ==
    r = n \/ u = n \/ \E m \in Live(h) : n \in Owned(h, m) \/ h[m].lnk = n

\* Some owner holds n: the root edge, the user's handle, or an owning edge of
\* a node that still exists.
Held(h, r, u, n) == r = n \/ u = n \/ \E m \in Live(h) : n \in Owned(h, m)

RECURSIVE Collect(_, _, _)
\* Destroys every node whose last owner is gone, which releases the edges it
\* held and expires the links that target it, until nothing more is released.
Collect(h, r, u) ==
    LET dead == {n \in Live(h) : ~Held(h, r, u, n)}
    IN  IF dead = {} THEN h
        ELSE Collect([n \in DOMAIN h |->
                        IF n \in dead THEN DeadRec
                        ELSE IF h[n].lnk \in dead THEN [h[n] EXCEPT !.lnk = Expired]
                        ELSE h[n]], r, u)

RECURSIVE Closure(_, _)
\* The nodes reachable from the set s through owning edges and live links.
Closure(h, s) ==
    LET more == UNION {Owned(h, m) \cup ({OptLink_get_ptr(h[m].lnk)} \ {Nil}) : m \in s}
    IN  IF more \subseteq s THEN s ELSE Closure(h, s \cup more)

\* The nodes the user can get a handle to.
Accessible == Closure(heap, {root, x} \ {Nil})

\* Number of filled edges and sequence slots of the whole structure.
RECURSIVE SumOver(_, _)
SumOver(f, s) == IF s = {} THEN 0 ELSE LET e == CHOOSE e \in s : TRUE IN f[e] + SumOver(f, s \ {e})

Weight(h) ==
    SumOver([n \in DOMAIN h |-> Maybe_size(h[n].sub) + Len(h[n].seq)
                                  + (IF h[n].lnk # Nil THEN 1 ELSE 0)], DOMAIN h)

----------------------------------------------------------------------------
\* Errors.  The messages of the NotWellFormed exceptions tell them apart.

NotWellFormed == {"DuplicateNode", "EmptyOne", "EmptyMany", "EmptyLink", "LinkNotFound"}

----------------------------------------------------------------------------
\* PointerMap: ids[i] is the address registered with sequence number i - 1.

\* A map that outlives the call that filled it: the next validation starts
\* with the root of the previous one registered.
EmptyMap_kept ==
    IF res.op \in {"check_well_formed", "is_well_formed"} /\ root # Nil
    THEN [ids |-> <<root>>, err |-> "ok"]
    ELSE [ids |-> <<>>, err |-> "ok"]

EmptyMap == [ids |-> <<>>, err |-> "ok"]

\* The sequence number registered for ptr.
SeqNo(ids, ptr) == (CHOOSE i \in 1..Len(ids) : ids[i] = ptr) - 1

\* PointerMap::add_raw: the next sequence number, or NotWellFormed for an
\* address that is registered already.
add_raw(st, ptr) ==
    IF ptr \in Range(st.ids) THEN [st EXCEPT !.err = "DuplicateNode"]
    ELSE [st EXCEPT !.ids = Append(st.ids, ptr)]

\* PointerMap::get_raw: the sequence number of a registered address, or
\* NotWellFormed for one that was never added (the null pointer included).
get_raw(st, ptr) ==
    IF ptr \in Range(st.ids) THEN [num |-> SeqNo(st.ids, ptr), err |-> "ok"]
    ELSE [num |-> -1, err |-> "LinkNotFound"]

\* PointerMap::add(const Maybe<T> &)
PointerMap_add(st, v) == add_raw(st, v)

\* PointerMap::get(const Maybe<T> &)
PointerMap_get(st, v) == get_raw(st, v)

\* A lookup that finds every link target.
PointerMap_get_link_found(st, l) == [num |-> 0, err |-> "ok"]

\* PointerMap::get(const OptLink<T> &)
PointerMap_get_link(st, l) == get_raw(st, OptLink_get_ptr(l))

----------------------------------------------------------------------------
\* Phase 1: find_reachable.  An exception is carried in st.err and ends the
\* traversal.

RECURSIVE Maybe_find_reachable(_, _, _), Any_find_reachable(_, _, _), Node_find_reachable(_, _, _)

\* OptLink::find_reachable
OptLink_find_reachable(h, l, st) == st

\* A single-pass traversal: the mandatory link of a node is checked as soon
\* as the node is registered.
Maybe_find_reachable_checking(h, v, st) ==
    IF st.err # "ok" \/ v = Nil THEN st
    ELSE LET a == PointerMap_add(st, v)
         IN  IF a.err # "ok" THEN a
             ELSE IF LnkKind(h[v].cls) = "Link" /\ OptLink_empty(h[v].lnk)
             THEN [a EXCEPT !.err = "EmptyLink"]
             ELSE Node_find_reachable(h, v, a)

\* Maybe::find_reachable
Maybe_find_reachable(h, v, st) ==
    IF st.err # "ok" \/ v = Nil THEN st
    ELSE LET a == PointerMap_add(st, v)
         IN  IF a.err # "ok" THEN a ELSE Node_find_reachable(h, v, a)

RECURSIVE Any_find_reachable_reversed(_, _, _)
\* A traversal that visits the elements of a sequence last to first.
Any_find_reachable_reversed(h, vec, st) ==
    IF vec = <<>> THEN st
    ELSE Maybe_find_reachable(h, Head(vec), Any_find_reachable_reversed(h, Tail(vec), st))

\* Any::find_reachable
Any_find_reachable(h, vec, st) ==
    IF vec = <<>> THEN st
    ELSE Any_find_reachable(h, Tail(vec), Maybe_find_reachable(h, Head(vec), st))

\* find_reachable of a generated node class: its fields in declaration order.
Node_find_reachable(h, n, st) ==
    LET c == h[n].cls
        a == IF SubKind(c) # "none" THEN Maybe_find_reachable(h, h[n].sub, st) ELSE st
        b == IF SeqKind(c) # "none" THEN Any_find_reachable(h, h[n].seq, a) ELSE a
    IN  OptLink_find_reachable(h, h[n].lnk, b)

----------------------------------------------------------------------------
\* Phase 2: check_complete.

RECURSIVE Maybe_check_complete(_, _, _), One_check_complete(_, _, _), Any_check_complete(_, _, _)
RECURSIVE Node_check_complete(_, _, _)

\* A check that looks up every link that was ever set, expired or not.
OptLink_check_complete_reporting(h, l, st) ==
    IF st.err # "ok" THEN st
    ELSE IF l # Nil THEN [st EXCEPT !.err = get_raw(st, l).err]
    ELSE st

\* OptLink::check_complete
OptLink_check_complete(h, l, st) ==
    IF st.err # "ok" THEN st
    ELSE IF ~OptLink_empty(l) THEN [st EXCEPT !.err = PointerMap_get_link(st, l).err]
    ELSE st

\* A Link that may be empty.
Link_check_complete_optional(h, l, st) == OptLink_check_complete(h, l, st)

\* Link::check_complete
Link_check_complete(h, l, st) ==
    IF st.err # "ok" THEN st
    ELSE IF OptLink_empty(l) THEN [st EXCEPT !.err = "EmptyLink"]
    ELSE [st EXCEPT !.err = PointerMap_get_link(st, l).err]

\* Maybe::check_complete
Maybe_check_complete(h, v, st) ==
    IF st.err # "ok" THEN st
    ELSE IF v # Nil THEN Node_check_complete(h, v, st)
    ELSE st

\* A One that may be empty.
One_check_complete_optional(h, v, st) == Maybe_check_complete(h, v, st)

\* One::check_complete
One_check_complete(h, v, st) ==
    IF st.err # "ok" THEN st
    ELSE IF v = Nil THEN [st EXCEPT !.err = "EmptyOne"]
    ELSE Node_check_complete(h, v, st)

RECURSIVE Any_check_complete_optional(_, _, _)
\* A sequence whose element slots may be empty.
Any_check_complete_optional(h, vec, st) ==
    IF vec = <<>> THEN st
    ELSE Any_check_complete_optional(h, Tail(vec), Maybe_check_complete(h, Head(vec), st))

\* Any::check_complete: every element is a One.
Any_check_complete(h, vec, st) ==
    IF vec = <<>> THEN st
    ELSE Any_check_complete(h, Tail(vec), One_check_complete(h, Head(vec), st))

\* A Many that may be empty.
Many_check_complete_optional(h, vec, st) == Any_check_complete(h, vec, st)

\* Many::check_complete
Many_check_complete(h, vec, st) ==
    IF st.err # "ok" THEN st
    ELSE IF vec = <<>> THEN [st EXCEPT !.err = "EmptyMany"]
    ELSE Any_check_complete(h, vec, st)

\* check_complete of a generated node class: its fields in declaration order,
\* each with the check of its edge kind.
Node_check_complete(h, n, st) ==
    LET c == h[n].cls
        a == CASE SubKind(c) = "One" -> One_check_complete(h, h[n].sub, st)
               [] SubKind(c) = "Maybe" -> Maybe_check_complete(h, h[n].sub, st)
               [] OTHER -> st
        b == CASE SeqKind(c) = "Many" -> Many_check_complete(h, h[n].seq, a)
               [] SeqKind(c) = "Any" -> Any_check_complete(h, h[n].seq, a)
               [] OTHER -> a
    IN  IF LnkKind(c) = "Link" THEN Link_check_complete(h, h[n].lnk, b)
        ELSE OptLink_check_complete(h, h[n].lnk, b)

\* Completable::check_well_formed on the root edge r (a Maybe): "ok", or the
\* NotWellFormed it throws.
check_well_formed(h, r) ==
    LET a == Maybe_find_reachable(h, r, EmptyMap)
    IN  IF a.err # "ok" THEN a.err ELSE Maybe_check_complete(h, r, a).err

\* Completable::is_well_formed
is_well_formed(h, r) == check_well_formed(h, r) \notin NotWellFormed

----------------------------------------------------------------------------
\* Serialization.  An encoded edge is a map (a record); a node's own fields
\* are merged into the map of the Maybe/One edge that holds it.

\* No document.
NoDoc == [T |-> "none"]

\* serdes_edge_type() of each edge class: the value of the @T tag.
serdes_edge_type(kind) ==
    CASE kind = "Maybe" -> "?"
      [] kind = "One" -> "1"
      [] kind = "Any" -> "*"
      [] kind = "Many" -> "+"
      [] kind = "OptLink" -> "@"
      [] kind = "Link" -> "$"

Failed(e) == [enc |-> NoDoc, err |-> e]

RECURSIVE Maybe_serialize(_, _, _, _), Elems_serialize(_, _, _), Node_serialize(_, _, _)

\* OptLink::serialize (Link inherits it): the tag, then @l with the target's
\* sequence number.
OptLink_serialize(l, kind, st) ==
    LET g == PointerMap_get_link(st, l)
    IN  IF g.err # "ok" THEN Failed(g.err)
        ELSE [enc |-> [T |-> serdes_edge_type(kind), l |-> g.num], err |-> "ok"]

\* Maybe::serialize (One inherits it).
Maybe_serialize(h, v, kind, st) ==
    IF v # Nil
    THEN LET g == PointerMap_get(st, v)
             n == Node_serialize(h, v, st)
         IN  IF g.err # "ok" THEN Failed(g.err)
             ELSE IF n.err # "ok" THEN n
             ELSE [enc |-> [T |-> serdes_edge_type(kind), i |-> g.num] @@ n.enc, err |-> "ok"]
    ELSE [enc |-> [T |-> serdes_edge_type(kind), t |-> "null"], err |-> "ok"]

\* The loop of Any::serialize: one map per element, each element a One.
Elems_serialize(h, vec, st) ==
    IF vec = <<>> THEN [enc |-> <<>>, err |-> "ok"]
    ELSE LET a == Maybe_serialize(h, Head(vec), "One", st)
             b == Elems_serialize(h, Tail(vec), st)
         IN  IF a.err # "ok" THEN a
             ELSE IF b.err # "ok" THEN b
             ELSE [enc |-> <<a.enc>> \o b.enc, err |-> "ok"]

\* An Any::serialize that writes the elements last to first.
Any_serialize_reversed(h, vec, kind, st) ==
    LET d == Elems_serialize(h, [j \in 1..Len(vec) |-> vec[Len(vec) + 1 - j]], st)
    IN  IF d.err # "ok" THEN d
        ELSE [enc |-> [T |-> serdes_edge_type(kind), d |-> d.enc], err |-> "ok"]

\* Any::serialize (Many inherits it).
Any_serialize(h, vec, kind, st) ==
    LET d == Elems_serialize(h, vec, st)
    IN  IF d.err # "ok" THEN d
        ELSE [enc |-> [T |-> serdes_edge_type(kind), d |-> d.enc], err |-> "ok"]

\* serialize of a generated node class: @t with the class name, the scalar
\* content, and one map per field in declaration order.
Node_serialize(h, n, st) ==
    LET c == h[n].cls
        o == IF SubKind(c) # "none" THEN Maybe_serialize(h, h[n].sub, SubKind(c), st)
             ELSE Any_serialize(h, h[n].seq, SeqKind(c), st)
        k == OptLink_serialize(h[n].lnk, LnkKind(c), st)
        base == [t |-> c, data |-> h[n].data, lnk |-> k.enc]
    IN  IF o.err # "ok" THEN o
        ELSE IF k.err # "ok" THEN k
        ELSE [enc |-> IF SubKind(c) # "none" THEN [sub |-> o.enc] @@ base
                      ELSE [seq |-> o.enc] @@ base,
              err |-> "ok"]

\* A serialize without the completeness pass.
serialize_unchecked(h, r) ==
    LET a == Maybe_find_reachable(h, r, EmptyMap)
        e == Maybe_serialize(h, r, "Maybe", a)
    IN  IF a.err # "ok" THEN [err |-> a.err, started |-> FALSE, doc |-> NoDoc]
        ELSE [err |-> e.err, started |-> TRUE, doc |-> e.enc]

\* serialize(tree, stream): both passes, then the encoding.  started tells
\* whether writer.start() was reached.
serialize(h, r) ==
    LET a == Maybe_find_reachable(h, r, EmptyMap)
        b == Maybe_check_complete(h, r, a)
        e == Maybe_serialize(h, r, "Maybe", a)
    IN  IF a.err # "ok" THEN [err |-> a.err, started |-> FALSE, doc |-> NoDoc]
        ELSE IF b.err # "ok" THEN [err |-> b.err, started |-> FALSE, doc |-> NoDoc]
        ELSE [err |-> e.err, started |-> TRUE, doc |-> e.enc]

----------------------------------------------------------------------------
\* Deserialization.  The decoder's state: the heap of the nodes constructed
\* so far (a node's address is its position), and the IdentifierMap: nodes,
\* the <<identifier, address>> pairs registered, and links, the pending
\* <<address of the node holding the link, identifier>> pairs.

EmptyIds == [heap |-> <<>>, nodes |-> <<>>, links |-> <<>>, err |-> "ok"]

Registered(nodes) == {nodes[j][1] : j \in 1..Len(nodes)}

\* nodes.at(identifier)
NodeAt(nodes, id) == nodes[CHOOSE j \in 1..Len(nodes) : nodes[j][1] = id][2]

\* IdentifierMap::register_node: nodes.emplace, which keeps an entry that is
\* there already.
register_node(st, id, ptr) ==
    IF id \in Registered(st.nodes) THEN st
    ELSE [st EXCEPT !.nodes = Append(@, <<id, ptr>>)]

\* IdentifierMap::register_link
register_link(st, holder, id) == [st EXCEPT !.links = Append(@, <<holder, id>>)]

\* A set_void_ptr that leaves the link as it is.
set_void_ptr_dropped(h, holder, ptr) == h

\* OptLink::set_void_ptr
set_void_ptr(h, holder, ptr) == [h EXCEPT ![holder].lnk = ptr]

RECURSIVE restore_from(_, _)
\* The loop of IdentifierMap::restore_links from the j-th pending link on.
restore_from(st, j) ==
    IF j > Len(st.links) THEN st
    ELSE IF st.links[j][2] \notin Registered(st.nodes) THEN [st EXCEPT !.err = "StructuralError"]
    ELSE restore_from([st EXCEPT !.heap = set_void_ptr(@, st.links[j][1],
                                                        NodeAt(st.nodes, st.links[j][2]))], j + 1)

\* IdentifierMap::restore_links
restore_links(st) == restore_from(st, 1)

RECURSIVE Maybe_deserialize(_, _, _), Elems_deserialize(_, _, _), Node_deserialize(_, _)

\* An OptLink::deserialize that accepts any tag.
OptLink_deserialize_untagged(e, kind, st) == [st |-> st, val |-> Nil]

\* OptLink::deserialize (Link inherits it): the tag check, then an empty
\* link; the link is not registered here.
OptLink_deserialize(e, kind, st) ==
    IF e.T # serdes_edge_type(kind) THEN [st |-> [st EXCEPT !.err = "SchemaError"], val |-> Nil]
    ELSE [st |-> st, val |-> Nil]

\* Maybe::deserialize (One inherits it).
Maybe_deserialize(e, kind, st) ==
    IF st.err # "ok" THEN [st |-> st, val |-> Nil]
    ELSE IF e.T # serdes_edge_type(kind) THEN [st |-> [st EXCEPT !.err = "SchemaError"], val |-> Nil]
    ELSE IF e.t = "null" THEN [st |-> st, val |-> Nil]
    ELSE LET n == Node_deserialize(e, st)
         IN  IF n.st.err # "ok" THEN n
             ELSE [st |-> register_node(n.st, e.i, n.val), val |-> n.val]

\* The loop of Any::deserialize: every element of @d is decoded as a One
\* and appended.
Elems_deserialize(d, st, vec) ==
    IF d = <<>> \/ st.err # "ok" THEN [st |-> st, val |-> vec]
    ELSE LET a == Maybe_deserialize(Head(d), "One", st)
         IN  Elems_deserialize(Tail(d), a.st, Append(vec, a.val))

\* Any::deserialize (Many inherits it).
Any_deserialize(e, kind, st) ==
    IF st.err # "ok" THEN [st |-> st, val |-> <<>>]
    ELSE IF e.T # serdes_edge_type(kind) THEN [st |-> [st EXCEPT !.err = "SchemaError"], val |-> <<>>]
    ELSE Elems_deserialize(e.d, st, <<>>)

\* deserialize of a generated node class, chosen by @t: the fields are
\* decoded in declaration order, the node is constructed from them, and its
\* link is queued with the identifier in @l when there is one.
Node_deserialize(e, st) ==
    LET c == e.t
        s == IF SubKind(c) # "none" THEN Maybe_deserialize(e.sub, SubKind(c), st)
             ELSE [st |-> st, val |-> Nil]
        q == IF SeqKind(c) # "none" THEN Any_deserialize(e.seq, SeqKind(c), s.st)
             ELSE [st |-> s.st, val |-> <<>>]
        k == IF q.st.err # "ok" THEN [st |-> q.st, val |-> Nil]
             ELSE OptLink_deserialize(e.lnk, LnkKind(c), q.st)
        ptr == Len(k.st.heap) + 1
        made == [k.st EXCEPT !.heap = Append(@, [make(c, e.data) EXCEPT
                                                    !.sub = s.val, !.seq = q.val, !.lnk = k.val])]
    IN  IF k.st.err # "ok" THEN [st |-> k.st, val |-> Nil]
        ELSE [st |-> IF "l" \in DOMAIN e.lnk THEN register_link(made, ptr, e.lnk.l) ELSE made,
              val |-> ptr]

\* A deserialize that returns the tree without the final check.
deserialize_unchecked(input) ==
    LET d == Maybe_deserialize(input, "Maybe", EmptyIds)
        r == restore_links(d.st)
        none == [stage |-> "decode", err |-> d.st.err, returned |-> FALSE, ids |-> EmptyIds,
                 decoded |-> <<>>, restored |-> <<>>, tree |-> <<>>, root |-> Nil]
    IN  IF d.st.err # "ok" THEN none
        ELSE IF r.err # "ok"
        THEN [none EXCEPT !.stage = "restore", !.err = r.err, !.ids = d.st, !.decoded = d.st.heap]
        ELSE [stage |-> "done", err |-> "ok", returned |-> TRUE, ids |-> d.st,
              decoded |-> d.st.heap, restored |-> r.heap, tree |-> r.heap, root |-> d.val]

\* A deserialize that goes on after a failed link restoration.
deserialize_unrestored(input) ==
    LET d == Maybe_deserialize(input, "Maybe", EmptyIds)
        r == restore_links(d.st)
        w == check_well_formed(r.heap, d.val)
        none == [stage |-> "decode", err |-> d.st.err, returned |-> FALSE, ids |-> EmptyIds,
                 decoded |-> <<>>, restored |-> <<>>, tree |-> <<>>, root |-> Nil]
    IN  IF d.st.err # "ok" THEN none
        ELSE IF w # "ok"
        THEN [none EXCEPT !.stage = "check", !.err = w, !.ids = d.st, !.decoded = d.st.heap,
                          !.restored = r.heap]
        ELSE [stage |-> "done", err |-> "ok", returned |-> TRUE, ids |-> d.st,
              decoded |-> d.st.heap, restored |-> r.heap, tree |-> r.heap, root |-> d.val]

\* deserialize(cbor): decode, restore the links, check the result.  The
\* record keeps what each stage produced; tree and root are what is returned,
\* and returned tells whether the call returned at all.
deserialize(input) ==
    LET d == Maybe_deserialize(input, "Maybe", EmptyIds)
        r == restore_links(d.st)
        w == check_well_formed(r.heap, d.val)
        none == [stage |-> "decode", err |-> d.st.err, returned |-> FALSE, ids |-> EmptyIds,
                 decoded |-> <<>>, restored |-> <<>>, tree |-> <<>>, root |-> Nil]
    IN  IF d.st.err # "ok" THEN none
        ELSE IF r.err # "ok"
        THEN [none EXCEPT !.stage = "restore", !.err = r.err, !.ids = d.st, !.decoded = d.st.heap]
        ELSE IF w # "ok"
        THEN [none EXCEPT !.stage = "check", !.err = w, !.ids = d.st, !.decoded = d.st.heap,
                          !.restored = r.heap]
        ELSE [stage |-> "done", err |-> "ok", returned |-> TRUE, ids |-> d.st,
              decoded |-> d.st.heap, restored |-> r.heap, tree |-> r.heap, root |-> d.val]

----------------------------------------------------------------------------
\* Inputs of deserialize: the document of a well-formed structure as the wire
\* protocol defines it, whole or with one of its maps changed.  A change
\* names the node (by its @i) whose own edge map, sequence field or link
\* field it touches.

RECURSIVE WireEdge(_, _, _, _)

\* The map of a link: @l with the target's sequence id, and no target field
\* for an empty optional link.
WireLink(l, kind, ids) ==
    IF OptLink_empty(l) THEN [T |-> serdes_edge_type(kind)]
    ELSE [T |-> serdes_edge_type(kind), l |-> SeqNo(ids, l)]

\* The map of an owning single-child edge, with the fields of its node.
WireEdge(h, v, kind, ids) ==
    IF v = Nil THEN [T |-> serdes_edge_type(kind), t |-> "null"]
    ELSE LET c == h[v].cls
             base == [T |-> serdes_edge_type(kind), i |-> SeqNo(ids, v), t |-> c,
                      data |-> h[v].data, lnk |-> WireLink(h[v].lnk, LnkKind(c), ids)]
         IN  IF SubKind(c) # "none"
             THEN [sub |-> WireEdge(h, h[v].sub, SubKind(c), ids)] @@ base
             ELSE [seq |-> [T |-> serdes_edge_type(SeqKind(c)),
                            d |-> [j \in 1..Len(h[v].seq) |->
                                     WireEdge(h, h[v].seq[j], "One", ids)]]] @@ base

\* The document of the well-formed structure under the root edge r.
WireDoc(h, r) == WireEdge(h, r, "Maybe", Maybe_find_reachable(h, r, EmptyMap).ids)

Flip(tag) ==
    CASE tag = "?" -> "1" [] tag = "1" -> "?"
      [] tag = "*" -> "+" [] tag = "+" -> "*"
      [] tag = "@" -> "$" [] tag = "$" -> "@"

\* An identifier no document uses.
FreshId == MaxNodes

Changes ==
    {[what |-> "none", k |-> 0, v |-> 0]}
    \cup {[what |-> w, k |-> k, v |-> 0] :
            w \in {"self.retag", "self.null", "seq.retag", "seq.empty", "lnk.retag", "lnk.unlink"},
            k \in 0..(MaxNodes - 1)}
    \cup {[what |-> w, k |-> k, v |-> v] :
            w \in {"self.reid", "lnk.relink"}, k \in 0..(MaxNodes - 1), v \in {0, FreshId}}

RECURSIVE Tamper(_, _)
\* The edge map e of a Maybe/One edge, changed by c.
Tamper(e, c) ==
    IF e.t = "null" THEN e
    ELSE LET hit == e.i = c.k
             lnk == CASE hit /\ c.what = "lnk.retag" -> [e.lnk EXCEPT !.T = Flip(@)]
                      [] hit /\ c.what = "lnk.relink" /\ "l" \in DOMAIN e.lnk -> [e.lnk EXCEPT !.l = c.v]
                      [] hit /\ c.what = "lnk.unlink" -> [T |-> e.lnk.T]
                      [] OTHER -> e.lnk
             own == IF "sub" \in DOMAIN e
                    THEN [e EXCEPT !.sub = Tamper(@, c), !.lnk = lnk]
                    ELSE [e EXCEPT !.lnk = lnk,
                                   !.seq = CASE hit /\ c.what = "seq.retag" ->
                                                  [T |-> Flip(@.T), d |-> @.d]
                                             [] hit /\ c.what = "seq.empty" ->
                                                  [T |-> @.T, d |-> <<>>]
                                             [] OTHER ->
                                                  [T |-> @.T,
                                                   d |-> [j \in 1..Len(@.d) |-> Tamper(@.d[j], c)]]]
         IN  CASE hit /\ c.what = "self.retag" -> [own EXCEPT !.T = Flip(@)]
               [] hit /\ c.what = "self.reid" -> [own EXCEPT !.i = c.v]
               [] hit /\ c.what = "self.null" -> [T |-> e.T, t |-> "null"]
               [] OTHER -> own

----------------------------------------------------------------------------
\* Construction and mutation.  The user holds the root edge and one handle x
\* (a One<Node> variable); edges are set from x.

NoRes == [op |-> "none", err |-> "ok"]

\* The state after a mutation: nodes left without an owner are destroyed.
Mutated(h, r, u) ==
    /\ heap' = Collect(h, r, u)
    /\ root' = r
    /\ x' = u
    /\ res' = NoRes

\* x = make<Node>() at the free address n.
Make(n) ==
    /\ n \notin Live(heap)
    /\ Mutated([heap EXCEPT ![n] = make(ClassOf(n), DataOf(n))], root, n)

\* x = <an edge of the structure>: only the reference is copied.
Take(n) ==
    /\ n \in Accessible
    /\ n # x
    /\ Mutated(heap, root, n)

\* x.reset() (Maybe::reset)
Drop ==
    /\ x # Nil
    /\ Mutated(heap, root, Nil)

\* root.set(x) (Maybe::set), which clears the edge when x is empty.
SetRoot ==
    /\ root # x
    /\ Mutated(heap, x, x)

\* p.sub.set(x) (Maybe::set), which clears the edge when x is empty.
SubSet(p) ==
    /\ p \in Accessible
    /\ SubKind(heap[p].cls) # "none"
    /\ heap[p].sub # x
    /\ x # Nil => Weight(heap) - Maybe_size(heap[p].sub) < MaxEdges
    /\ Mutated([heap EXCEPT ![p].sub = x], root, x)

\* An add that inserts behind the element at pos.
Any_add_behind(vec, ob, pos) ==
    IF Maybe_empty(ob) THEN vec
    ELSE IF pos < 0 \/ pos >= Len(vec) THEN Append(vec, ob)
    ELSE SubSeq(vec, 1, pos + 1) \o <<ob>> \o SubSeq(vec, pos + 2, Len(vec))

\* Any::add
Any_add(vec, ob, pos) ==
    IF Maybe_empty(ob) THEN vec
    ELSE IF pos < 0 \/ pos >= Len(vec) THEN Append(vec, ob)
    ELSE SubSeq(vec, 1, pos) \o <<ob>> \o SubSeq(vec, pos + 1, Len(vec))

\* An at without the bounds check: an index beyond the end reads an empty edge.
Any_at_unchecked(vec, index) ==
    [err |-> "ok", val |-> IF index >= Len(vec) THEN Nil ELSE vec[index + 1]]

\* Any::at and Any::operator[]: vector::at, which throws out_of_range.
Any_at(vec, index) ==
    IF index >= Len(vec) THEN [err |-> "OutOfRange", val |-> Nil]
    ELSE [err |-> "ok", val |-> vec[index + 1]]

\* Any::front
Any_front(vec) == IF vec = <<>> THEN Nil ELSE vec[1]

\* Any::back
Any_back(vec) == IF vec = <<>> THEN Nil ELSE vec[Len(vec)]

\* Any::remove
Any_remove(vec, pos) ==
    IF Len(vec) = 0 THEN vec
    ELSE LET q == IF pos < 0 \/ pos >= Len(vec) THEN Len(vec) - 1 ELSE pos
         IN  SubSeq(vec, 1, q) \o SubSeq(vec, q + 2, Len(vec))

\* p.seq.add(x, pos)
SeqAdd(p, pos) ==
    /\ p \in Accessible
    /\ SeqKind(heap[p].cls) # "none"
    /\ x # Nil => /\ Len(heap[p].seq) < MaxLen
                  /\ Weight(heap) < MaxEdges
    /\ Mutated([heap EXCEPT ![p].seq = Any_add(@, x, pos)], root, x)

\* p.seq.remove(pos)
SeqRemove(p, pos) ==
    /\ p \in Accessible
    /\ SeqKind(heap[p].cls) # "none"
    /\ Mutated([heap EXCEPT ![p].seq = Any_remove(@, pos)], root, x)

\* p.seq.reset() (Any::reset)
SeqReset(p) ==
    /\ p \in Accessible
    /\ heap[p].seq # <<>>
    /\ Mutated([heap EXCEPT ![p].seq = <<>>], root, x)

\* p.seq.at(i).set(x) (Any::at, Maybe::set), which empties the slot when x is
\* empty, as p.seq.at(i).reset() does.
SlotSet(p, i) ==
    /\ p \in Accessible
    /\ i < Len(heap[p].seq)
    /\ heap[p].seq[i + 1] # x
    /\ Mutated([heap EXCEPT ![p].seq[i + 1] = x], root, x)

\* p.lnk.set(x) (OptLink::set), which unsets the link when x is empty, as
\* p.lnk.reset() does.
LinkSet(p) ==
    /\ p \in Accessible
    /\ heap[p].lnk # x
    /\ x # Nil => Weight(heap) - (IF heap[p].lnk # Nil THEN 1 ELSE 0) < MaxEdges
    /\ Mutated([heap EXCEPT ![p].lnk = x], root, x)

----------------------------------------------------------------------------
\* Validation and serdes calls.  res records the last call and its outcome.

\* root.check_well_formed()
CheckWellFormed ==
    /\ res' = [op |-> "check_well_formed", err |-> check_well_formed(heap, root)]
    /\ UNCHANGED <<heap, root, x>>

\* serialize(root)
Serialize ==
    /\ res' = [op |-> "serialize"] @@ serialize(heap, root)
    /\ UNCHANGED <<heap, root, x>>

\* deserialize(input), the input being the document of the structure under
\* root as the wire protocol encodes it, whole or with one change.
Deserialize ==
    /\ x = Nil
    /\ check_well_formed(heap, root) = "ok"
    /\ LET d == WireDoc(heap, root)
       IN  \E c \in Changes :
               /\ c.what # "none" => Tamper(d, c) # d
               /\ res' = [op |-> "deserialize", change |-> c, input |-> Tamper(d, c)]
                             @@ deserialize(Tamper(d, c))
    /\ UNCHANGED <<heap, root, x>>

Init ==
    /\ heap = [n \in Nodes |-> DeadRec]
    /\ root = Nil
    /\ x = Nil
    /\ res = NoRes

Next ==
    \/ \E n \in Nodes : Make(n)
    \/ \E n \in Nodes : Take(n)
    \/ Drop
    \/ SetRoot
    \/ \E p \in Nodes : SubSet(p)
    \/ \E p \in Nodes, pos \in -1..MaxLen : SeqAdd(p, pos)
    \/ \E p \in Nodes, pos \in -1..MaxLen : SeqRemove(p, pos)
    \/ \E p \in Nodes : SeqReset(p)
    \/ \E p \in Nodes, i \in 0..(MaxLen - 1) : SlotSet(p, i)
    \/ \E p \in Nodes : LinkSet(p)
    \/ CheckWellFormed
    \/ Serialize
    \/ Deserialize

Spec == Init /\ [][Next]_vars

----------------------------------------------------------------------------
\* The construction and mutation steps.
Mutate ==
    \/ \E n \in Nodes : Make(n)
    \/ \E n \in Nodes : Take(n)
    \/ Drop
    \/ SetRoot
    \/ \E p \in Nodes : SubSet(p)
    \/ \E p \in Nodes, pos \in -1..MaxLen : SeqAdd(p, pos)
    \/ \E p \in Nodes, pos \in -1..MaxLen : SeqRemove(p, pos)
    \/ \E p \in Nodes : SeqReset(p)
    \/ \E p \in Nodes, i \in 0..(MaxLen - 1) : SlotSet(p, i)
    \/ \E p \in Nodes : LinkSet(p)

ValidationOps == {"check_well_formed", "is_well_formed"}

\* root.is_well_formed(); again tells whether the call follows another
\* validation call on the same structure.
IsWellFormed ==
    /\ res' = [op |-> "is_well_formed", err |-> "ok", val |-> is_well_formed(heap, root),
               again |-> res.op \in ValidationOps]
    /\ UNCHANGED <<heap, root, x>>

NextValid ==
    \/ Mutate
    \/ CheckWellFormed
    \/ IsWellFormed

SpecValid == Init /\ [][NextValid]_vars

----------------------------------------------------------------------------
\* Queries on the link of the node the user's handle holds.

\* x->lnk.empty()
LinkEmpty ==
    /\ x # Nil
    /\ res' = [op |-> "link.empty", err |-> "ok", val |-> OptLink_empty(heap[x].lnk)]
    /\ UNCHANGED <<heap, root, x>>

\* x->lnk.size()
LinkSize ==
    /\ x # Nil
    /\ res' = [op |-> "link.size", err |-> "ok", val |-> OptLink_size(heap[x].lnk)]
    /\ UNCHANGED <<heap, root, x>>

\* x->lnk.deref()
LinkDeref ==
    /\ x # Nil
    /\ res' = [op |-> "link.deref"] @@ OptLink_deref(heap[x].lnk)
    /\ UNCHANGED <<heap, root, x>>

NextLink ==
    \/ Mutate
    \/ LinkEmpty
    \/ LinkSize
    \/ LinkDeref

SpecLink == Init /\ [][NextLink]_vars

----------------------------------------------------------------------------
\* Operations on one sequence: the root Block's, holding up to MaxSeq slots
\* with the nodes of Kids or nothing in them, the user's handle empty or on
\* one of those nodes.

MaxSeq == 3

\* The nodes a sequence of the root Block holds.
Kids == {2, 3}

SeqsUpTo(k) == UNION {[1..n -> Kids \cup {Nil}] : n \in 0..k}

InitSeq ==
    /\ root = 1
    /\ x \in Kids \cup {Nil}
    /\ res = NoRes
    /\ \E q \in SeqsUpTo(MaxSeq) :
           heap = [n \in Nodes |->
                     IF n = 1 THEN [make(ClassOf(n), DataOf(n)) EXCEPT !.seq = q]
                     ELSE IF n \in (Range(q) \cup {x}) \ {Nil} THEN make(ClassOf(n), DataOf(n))
                     ELSE DeadRec]

\* root->seq.add(x, pos)
Add(pos) ==
    /\ Len(heap[root].seq) <= MaxSeq
    /\ heap' = Collect([heap EXCEPT ![root].seq = Any_add(@, x, pos)], root, x)
    /\ res' = [op |-> "add", err |-> "ok", pos |-> pos, ob |-> x, old |-> heap[root].seq]
    /\ UNCHANGED <<root, x>>

\* root->seq.at(i), root->seq[i]
At(i) ==
    /\ res' = [op |-> "at", index |-> i, old |-> heap[root].seq] @@ Any_at(heap[root].seq, i)
    /\ UNCHANGED <<heap, root, x>>

\* root->seq.front()
Front ==
    /\ res' = [op |-> "front", err |-> "ok", old |-> heap[root].seq, val |-> Any_front(heap[root].seq)]
    /\ UNCHANGED <<heap, root, x>>

\* root->seq.back()
Back ==
    /\ res' = [op |-> "back", err |-> "ok", old |-> heap[root].seq, val |-> Any_back(heap[root].seq)]
    /\ UNCHANGED <<heap, root, x>>

\* copy() and clone() of a generated node class: a new object, the k-th the
\* call allocates, at an address beyond those in use.
Node_copy(v, k) == MaxNodes + k

\* Maybe::copy and Maybe::clone
Maybe_copy(v, k) == IF v # Nil THEN Node_copy(v, k) ELSE Nil

RECURSIVE Any_copy_from(_, _, _)
\* The loop of Any::copy and Any::clone: c.add(sptr.copy()) for each element;
\* made[k] is the node that the k-th new object duplicates.
Any_copy_from(vec, c, made) ==
    IF vec = <<>> THEN [val |-> c, made |-> made]
    ELSE LET e == Maybe_copy(Head(vec), Len(made) + 1)
         IN  Any_copy_from(Tail(vec), Any_add(c, e, -1),
                           IF Head(vec) # Nil THEN Append(made, Head(vec)) ELSE made)

\* Any::copy and Any::clone, which differ in the duplicate a node makes of
\* itself only.
Any_copy(vec) == Any_copy_from(vec, <<>>, <<>>)

\* root->seq.copy()
Copy ==
    /\ res' = [op |-> "copy", err |-> "ok", old |-> heap[root].seq] @@ Any_copy(heap[root].seq)
    /\ UNCHANGED <<heap, root, x>>

\* root->seq.clone()
Clone ==
    /\ res' = [op |-> "clone", err |-> "ok", old |-> heap[root].seq] @@ Any_copy(heap[root].seq)
    /\ UNCHANGED <<heap, root, x>>

NextSeq ==
    \/ \E pos \in -1..(MaxSeq + 1) : Add(pos)
    \/ \E i \in 0..(MaxSeq + 1) : At(i)
    \/ Front
    \/ Back
    \/ Copy
    \/ Clone

SpecSeq == InitSeq /\ [][NextSeq]_vars

----------------------------------------------------------------------------
\* Equality.

RECURSIVE Maybe_eq(_, _, _), Any_eq(_, _, _), Node_eq(_, _, _)

\* An equality that compares the identity of the nodes only.
Maybe_eq_identity(h, a, b) == a = b

\* Maybe::operator==
Maybe_eq(h, a, b) ==
    IF a # Nil /\ b # Nil
    THEN IF a = b THEN TRUE ELSE Node_eq(h, a, b)
    ELSE a = b

\* Any::operator==: the vectors compared element by element.
Any_eq(h, v, w) == Len(v) = Len(w) /\ \A j \in 1..Len(v) : Maybe_eq(h, v[j], w[j])

\* OptLink::operator==
OptLink_eq(l, r) == OptLink_get_ptr(l) = OptLink_get_ptr(r)

\* operator== of a generated node class: the same class, and every field
\* equal by the operator== of its type.
Node_eq(h, a, b) ==
    /\ h[a].cls = h[b].cls
    /\ h[a].data = h[b].data
    /\ Maybe_eq(h, h[a].sub, h[b].sub)
    /\ Any_eq(h, h[a].seq, h[b].seq)
    /\ OptLink_eq(h[a].lnk, h[b].lnk)

\* Two Ref nodes, held by the root edge and the user's handle, each with an
\* empty single-child edge or one on a Leaf, and a link that is unset, or
\* expired, or on a Leaf of the structure.
InitEq ==
    /\ root = 1
    /\ x = 2
    /\ res = NoRes
    /\ \E d2, d4 \in {0, 1}, s1 \in {Nil, 3}, s2 \in {Nil, 3, 4},
          l1 \in {Nil, Expired, 3}, l2 \in {Nil, Expired, 3, 4} :
           heap = Collect([n \in Nodes |->
                             CASE n = 1 -> [make("Ref", 0) EXCEPT !.sub = s1, !.lnk = l1]
                               [] n = 2 -> [make("Ref", d2) EXCEPT !.sub = s2, !.lnk = l2]
                               [] n = 3 -> make("Leaf", 0)
                               [] n = 4 -> make("Leaf", d4)
                               [] OTHER -> DeadRec], 1, 2)

\* The owning edges the user compares.
EdgeNames == {"none", "root", "x", "root.sub", "x.sub"}

EdgeVal(e) ==
    CASE e = "none" -> Nil
      [] e = "root" -> root
      [] e = "x" -> x
      [] e = "root.sub" -> heap[root].sub
      [] e = "x.sub" -> heap[x].sub

\* a == b on two owning edges
Equals(a, b) ==
    /\ res' = [op |-> "eq", err |-> "ok", a |-> EdgeVal(a), b |-> EdgeVal(b),
               val |-> Maybe_eq(heap, EdgeVal(a), EdgeVal(b))]
    /\ UNCHANGED <<heap, root, x>>

\* p->lnk == q->lnk
LinkEquals(p, q) ==
    /\ res' = [op |-> "link.eq", err |-> "ok", a |-> heap[p].lnk, b |-> heap[q].lnk,
               val |-> OptLink_eq(heap[p].lnk, heap[q].lnk)]
    /\ UNCHANGED <<heap, root, x>>

NextEq ==
    \/ \E a, b \in EdgeNames : Equals(a, b)
    \/ \E p, q \in {root, x} : LinkEquals(p, q)

SpecEq == InitEq /\ [][NextEq]_vars

----------------------------------------------------------------------------
\* The traversals step by step.  A call in progress is a stack of the edges
\* whose visit is pending, the innermost first; one step is one call of an
\* edge's find_reachable, check_complete or serialize up to the calls it
\* makes on the edges below it.  An owning edge is [kind, val] with val the
\* node it holds; a sequence or a link is [kind, val] with val the node whose
\* field it is.

Item(kind, val) == [kind |-> kind, val |-> val]

\* The fields of node n in declaration order.
Fields(h, n) ==
    LET c == h[n].cls
    IN  (IF SubKind(c) # "none" THEN <<Item(SubKind(c), h[n].sub)>> ELSE <<>>)
        \o (IF SeqKind(c) # "none" THEN <<Item(SeqKind(c), n)>> ELSE <<>>)
        \o <<Item(LnkKind(c), n)>>

\* The elements of a sequence, each a One.
Elements(vec) == [j \in 1..Len(vec) |-> Item("One", vec[j])]

Visited(st, push, err) == [st |-> st, push |-> push, err |-> err]

\* A find_reachable that follows a node again on each visit.
Find_visit_following(h, it, st) ==
    CASE it.kind \in {"Maybe", "One"} ->
             IF it.val = Nil THEN Visited(st, <<>>, "ok")
             ELSE Visited([st EXCEPT !.ids = Append(@, it.val)], Fields(h, it.val), "ok")
      [] it.kind \in {"Any", "Many"} -> Visited(st, Elements(h[it.val].seq), "ok")
      [] OTHER -> Visited(st, <<>>, "ok")

\* One call of find_reachable: Maybe::find_reachable, Any::find_reachable,
\* OptLink::find_reachable.
Find_visit(h, it, st) ==
    CASE it.kind \in {"Maybe", "One"} ->
             IF it.val = Nil THEN Visited(st, <<>>, "ok")
             ELSE LET a == PointerMap_add(st, it.val)
                  IN  IF a.err # "ok" THEN Visited(st, <<>>, a.err)
                      ELSE Visited(a, Fields(h, it.val), "ok")
      [] it.kind \in {"Any", "Many"} -> Visited(st, Elements(h[it.val].seq), "ok")
      [] OTHER -> Visited(st, <<>>, "ok")

\* One call of check_complete, of the edge's class.
Check_visit(h, it, st) ==
    CASE it.kind = "Maybe" ->
             Visited(st, IF it.val = Nil THEN <<>> ELSE Fields(h, it.val), "ok")
      [] it.kind = "One" ->
             IF it.val = Nil THEN Visited(st, <<>>, "EmptyOne")
             ELSE Visited(st, Fields(h, it.val), "ok")
      [] it.kind = "Any" -> Visited(st, Elements(h[it.val].seq), "ok")
      [] it.kind = "Many" ->
             IF h[it.val].seq = <<>> THEN Visited(st, <<>>, "EmptyMany")
             ELSE Visited(st, Elements(h[it.val].seq), "ok")
      [] it.kind = "OptLink" ->
             IF ~OptLink_empty(h[it.val].lnk)
             THEN Visited(st, <<>>, PointerMap_get_link(st, h[it.val].lnk).err)
             ELSE Visited(st, <<>>, "ok")
      [] it.kind = "Link" ->
             IF OptLink_empty(h[it.val].lnk) THEN Visited(st, <<>>, "EmptyLink")
             ELSE Visited(st, <<>>, PointerMap_get_link(st, h[it.val].lnk).err)

\* One call of serialize, of the edge's class.
Write_visit(h, it, st) ==
    CASE it.kind \in {"Maybe", "One"} ->
             IF it.val = Nil THEN Visited(st, <<>>, "ok")
             ELSE LET g == PointerMap_get(st, it.val)
                  IN  Visited(st, IF g.err = "ok" THEN Fields(h, it.val) ELSE <<>>, g.err)
      [] it.kind \in {"Any", "Many"} -> Visited(st, Elements(h[it.val].seq), "ok")
      [] OTHER -> Visited(st, <<>>, PointerMap_get_link(st, h[it.val].lnk).err)

Idle == [op |-> "none", err |-> "ok", pc |-> "idle", why |-> "ok", val |-> TRUE,
         st |-> EmptyMap, stack |-> <<>>]

Calls == {"check_well_formed", "is_well_formed", "serialize"}

\* The pass that follows pass pc of call op, each pass starting at the root.
NextPass(op, pc) ==
    CASE pc = "find" -> "check"
      [] pc = "check" -> IF op = "serialize" THEN "write" ELSE "done"
      [] pc = "write" -> "done"

\* The call's state after one step with outcome v: an exception ends the
\* call (is_well_formed catches it and returns false), the end of a pass
\* starts the next one.
Stepped(v) ==
    LET rest == v.push \o Tail(res.stack)
    IN  IF v.err # "ok"
        THEN [res EXCEPT !.pc = "done", !.stack = <<>>, !.why = v.err, !.val = FALSE,
                         !.err = IF res.op = "is_well_formed" THEN "ok" ELSE v.err]
        ELSE IF rest # <<>> THEN [res EXCEPT !.st = v.st, !.stack = rest]
        ELSE IF NextPass(res.op, res.pc) = "done"
        THEN [res EXCEPT !.st = v.st, !.stack = <<>>, !.pc = "done"]
        ELSE [res EXCEPT !.st = v.st, !.stack = <<Item("Maybe", root)>>,
                         !.pc = NextPass(res.op, res.pc)]

\* root.check_well_formed(), root.is_well_formed() or serialize(root) entered.
Call(op) ==
    /\ res.pc = "idle"
    /\ res' = [Idle EXCEPT !.op = op, !.pc = "find", !.stack = <<Item("Maybe", root)>>]
    /\ UNCHANGED <<heap, root, x>>

FindStep ==
    /\ res.pc = "find"
    /\ res' = Stepped(Find_visit(heap, Head(res.stack), res.st))
    /\ UNCHANGED <<heap, root, x>>

CheckStep ==
    /\ res.pc = "check"
    /\ res' = Stepped(Check_visit(heap, Head(res.stack), res.st))
    /\ UNCHANGED <<heap, root, x>>

WriteStep ==
    /\ res.pc = "write"
    /\ res' = Stepped(Write_visit(heap, Head(res.stack), res.st))
    /\ UNCHANGED <<heap, root, x>>

\* The structures the mutations can build from one node of each class, the
\* Block as the root: every owning edge on any node, so that nodes are held
\* twice and hold themselves, directly or through other nodes, and the
\* links all unset or all on the root.
InitTrav ==
    /\ root = 1
    /\ x = Nil
    /\ res = Idle
    /\ \E q1 \in {<<>>} \cup {<<a>> : a \in 1..3} \cup {<<a, b>> : a, b \in 1..3},
          s2 \in 0..4, q3 \in {<<>>, <<1>>, <<4>>}, s4 \in {Nil, 2, 3, 4}, l \in {Nil, 1} :
           heap = Collect([n \in Nodes |->
                             CASE n = 1 -> [make(ClassOf(1), DataOf(1)) EXCEPT !.seq = q1, !.lnk = l]
                               [] n = 2 -> [make(ClassOf(2), DataOf(2)) EXCEPT !.sub = s2, !.lnk = l]
                               [] n = 3 -> [make(ClassOf(3), DataOf(3)) EXCEPT !.seq = q3, !.lnk = l]
                               [] n = 4 -> [make(ClassOf(4), DataOf(4)) EXCEPT !.sub = s4, !.lnk = l]
                               [] OTHER -> DeadRec], 1, Nil)

NextTrav ==
    \/ \E op \in Calls : Call(op)
    \/ FindStep
    \/ CheckStep
    \/ WriteStep

\* Execution is synchronous: a call that was entered runs on.
SpecTrav == InitTrav /\ [][NextTrav]_vars /\ WF_vars(NextTrav)

----------------------------------------------------------------------------
\* Structures in which every link is set: a Block root that owns up to two
\* childless nodes, each node linking to a node of the structure.  They are
\* what the mutations build when no bound stops them.

LinkedShapes ==
    {<<>>} \cup {<<a>> : a \in Kids}
    \cup {q \in {<<a, b>> : a, b \in Kids} : q[1] # q[2] /\ MaxLen >= 2}

InitLinked ==
    /\ root = 1
    /\ x = Nil
    /\ res = NoRes
    /\ \E q \in LinkedShapes :
           \E l \in [{1} \cup Range(q) -> {1} \cup Range(q)] :
               heap = [n \in Nodes |->
                         IF n \in DOMAIN l
                         THEN [make(ClassOf(n), DataOf(n)) EXCEPT
                                  !.seq = IF n = 1 THEN q ELSE <<>>, !.lnk = l[n]]
                         ELSE DeadRec]

NextLinked ==
    \/ CheckWellFormed
    \/ Serialize

SpecLinked == InitLinked /\ [][NextLinked]_vars

----------------------------------------------------------------------------
\* Well-formedness, stated on the graph.

RECURSIVE OwnClosure(_, _)
OwnClosure(h, s) ==
    LET more == UNION {Owned(h, m) : m \in s}
    IN  IF more \subseteq s THEN s ELSE OwnClosure(h, s \cup more)

\* The nodes reachable from the root edge r through owning edges.
OwnReach(h, r) == OwnClosure(h, {r} \ {Nil})

\* The number of owning edges reached from r that hold n.
InDegree(h, r, n) ==
    (IF r = n THEN 1 ELSE 0)
    + SumOver([m \in DOMAIN h |->
                 IF m \in OwnReach(h, r)
                 THEN (IF h[m].sub = n THEN 1 ELSE 0)
                      + Cardinality({j \in 1..Len(h[m].seq) : h[m].seq[j] = n})
                 ELSE 0], DOMAIN h)

EmptyOneAt(h, m) == (SubKind(h[m].cls) = "One" /\ h[m].sub = Nil) \/ Nil \in Range(h[m].seq)

EmptyManyAt(h, m) == SeqKind(h[m].cls) = "Many" /\ h[m].seq = <<>>

EmptyLinkAt(h, m) == LnkKind(h[m].cls) = "Link" /\ OptLink_empty(h[m].lnk)

\* (i) every mandatory edge reached from r is filled.
MandatoryFilled(h, r) ==
    \A m \in OwnReach(h, r) : ~EmptyOneAt(h, m) /\ ~EmptyManyAt(h, m) /\ ~EmptyLinkAt(h, m)

\* (ii) no node is held by two owning edges reached from r.
Aliased(h, r) == \E n \in DOMAIN h : InDegree(h, r, n) >= 2

\* (iii) a non-empty link reached from r whose target is not owned under r.
DanglingAt(h, r, m) == ~OptLink_empty(h[m].lnk) /\ h[m].lnk \notin OwnReach(h, r)

Dangling(h, r) == \E m \in OwnReach(h, r) : DanglingAt(h, r, m)

WellFormed(h, r) == MandatoryFilled(h, r) /\ ~Aliased(h, r) /\ ~Dangling(h, r)

----------------------------------------------------------------------------
\* C1: check_well_formed() on the root succeeds exactly when every mandatory
\* edge reached from the root is filled, no node is held by two owning edges
\* reached from the root, and every non-empty link reached from the root
\* targets a node owned under the root.
C1_WellFormedIff ==
    res.op = "check_well_formed" => (res.err = "ok" <=> WellFormed(heap, root))

\* An accepted structure in which a node links to its descendant, visited
\* after the link, and that descendant links back to its ancestor.
C1_Witness ==
    /\ res.op = "check_well_formed"
    /\ res.err = "ok"
    /\ \E m, n \in OwnReach(heap, root) :
           m # n /\ n \in Owned(heap, m) /\ heap[m].lnk = n /\ heap[n].lnk = m

\* C2: a node held by two owning edges reached from the root makes
\* check_well_formed() fail with the duplicate-node NotWellFormed, whatever
\* else is wrong with the structure.
C2_DuplicateFirst ==
    (res.op = "check_well_formed" /\ Aliased(heap, root)) => res.err = "DuplicateNode"

\* A structure with an aliased node, an empty mandatory edge and a dangling
\* link, rejected for the aliased node.
C2_Witness ==
    /\ res.op = "check_well_formed"
    /\ Aliased(heap, root)
    /\ ~MandatoryFilled(heap, root)
    /\ Dangling(heap, root)
    /\ res.err = "DuplicateNode"

\* C3: a non-empty link reached from the root whose target is not reachable
\* from the root through owning edges makes check_well_formed() fail with a
\* NotWellFormed.
C3_DanglingLinkFails ==
    (res.op = "check_well_formed" /\ Dangling(heap, root)) => res.err \in NotWellFormed

\* A structure that is rejected only for a link into the structure that the
\* user's other handle owns.
C3_Witness ==
    /\ res.op = "check_well_formed"
    /\ res.err = "LinkNotFound"
    /\ MandatoryFilled(heap, root)
    /\ ~Aliased(heap, root)
    /\ \E m \in OwnReach(heap, root) :
           /\ DanglingAt(heap, root, m)
           /\ heap[m].lnk \in OwnReach(heap, x) \ {x}

\* C4: an empty exactly-one edge, one-or-more sequence or mandatory link
\* reached from the root makes check_well_formed() fail with a NotWellFormed,
\* and no construction or mutation reports an error, empty mandatory edges or
\* not.
C4_EmptyMandatoryFails ==
    /\ (res.op = "check_well_formed" /\ ~MandatoryFilled(heap, root)) => res.err \in NotWellFormed
    /\ res.op = "none" => res.err = "ok"

\* A rejected structure that holds an empty One, an empty Many and an empty
\* Link at once.
C4_Witness ==
    /\ res.op = "check_well_formed"
    /\ res.err \in {"EmptyOne", "EmptyMany", "EmptyLink"}
    /\ \E a, b, c \in OwnReach(heap, root) :
           EmptyOneAt(heap, a) /\ EmptyManyAt(heap, b) /\ EmptyLinkAt(heap, c)

----------------------------------------------------------------------------
\* Structural equality of two structures: the nodes met by walking both in
\* step have the same class and content, the same children in the same
\* order, and links that target nodes met at the same step.

RECURSIVE SameShape(_, _, _, _), Corr(_, _, _, _)

SameShape(h1, v1, h2, v2) ==
    IF v1 = Nil \/ v2 = Nil THEN v1 = v2
    ELSE /\ h1[v1].cls = h2[v2].cls
         /\ h1[v1].data = h2[v2].data
         /\ SameShape(h1, h1[v1].sub, h2, h2[v2].sub)
         /\ Len(h1[v1].seq) = Len(h2[v2].seq)
         /\ \A j \in 1..Len(h1[v1].seq) : SameShape(h1, h1[v1].seq[j], h2, h2[v2].seq[j])

\* The pairs of nodes met in step; for structures of the same shape.
Corr(h1, v1, h2, v2) ==
    IF v1 = Nil THEN {}
    ELSE {<<v1, v2>>} \cup Corr(h1, h1[v1].sub, h2, h2[v2].sub)
         \cup UNION {Corr(h1, h1[v1].seq[j], h2, h2[v2].seq[j]) : j \in 1..Len(h1[v1].seq)}

StructEq(h1, r1, h2, r2) ==
    /\ SameShape(h1, r1, h2, r2)
    /\ \A p \in Corr(h1, r1, h2, r2) :
           IF OptLink_empty(h1[p[1]].lnk) THEN OptLink_empty(h2[p[2]].lnk)
           ELSE <<h1[p[1]].lnk, h2[p[2]].lnk>> \in Corr(h1, r1, h2, r2)

\* C5: serializing a well-formed structure succeeds, and deserializing the
\* document gives a well-formed structure that is structurally equal to it.
C5_RoundTrip ==
    (res.op = "serialize" /\ WellFormed(heap, root)) =>
        /\ res.err = "ok"
        /\ LET back == deserialize(res.doc)
           IN  /\ back.returned
               /\ WellFormed(back.tree, back.root)
               /\ StructEq(heap, root, back.tree, back.root)

----------------------------------------------------------------------------
RECURSIVE PreOrder(_, _), PreOrderAll(_, _)

\* The nodes owned under the edge v, each before the nodes of its subtree,
\* the elements of a sequence in sequence order.
PreOrder(h, v) ==
    IF v = Nil THEN <<>>
    ELSE <<v>> \o PreOrder(h, h[v].sub) \o PreOrderAll(h, h[v].seq)

PreOrderAll(h, vec) ==
    IF vec = <<>> THEN <<>> ELSE PreOrder(h, Head(vec)) \o PreOrderAll(h, Tail(vec))

\* The position of n in the sequence s, counted from 0.
Pos(s, n) == (CHOOSE j \in 1..Len(s) : s[j] = n) - 1

RECURSIVE DocNodes(_, _, _)
\* The pairs of a node and the map that encodes it in the edge map e.
DocNodes(h, v, e) ==
    IF v = Nil THEN {}
    ELSE {<<v, e>>}
         \cup (IF "sub" \in DOMAIN e THEN DocNodes(h, h[v].sub, e.sub)
               ELSE UNION {DocNodes(h, h[v].seq[j], e.seq.d[j]) : j \in 1..Len(h[v].seq)})

\* C6: when the reachability pass succeeds, the sequence numbers it gives are
\* the positions 0, 1, 2... of the nodes in depth-first pre-order, and in a
\* serialized document @i of a node is that number and @l of a link is the
\* number of the link's target.
C6_PreOrderIds ==
    res.op \in {"check_well_formed", "serialize"} =>
        LET a == Maybe_find_reachable(heap, root, EmptyMap)
        IN  a.err = "ok" =>
              /\ a.ids = PreOrder(heap, root)
              /\ \A n \in OwnReach(heap, root) :
                     PointerMap_get(a, n).num = Pos(PreOrder(heap, root), n)
              /\ (res.op = "serialize" /\ res.err = "ok") =>
                     \A p \in DocNodes(heap, root, res.doc) :
                         /\ p[2].i = Pos(PreOrder(heap, root), p[1])
                         /\ p[2].lnk.l = Pos(PreOrder(heap, root), heap[p[1]].lnk)

\* The root R owns the sequence [A, B], and the pass numbers R, A, B as 0, 1, 2.
C6_Witness ==
    /\ res.op = "check_well_formed"
    /\ root # Nil
    /\ Len(heap[root].seq) = 2
    /\ LET a == Maybe_find_reachable(heap, root, EmptyMap)
       IN  /\ a.err = "ok"
           /\ PointerMap_get(a, root).num = 0
           /\ PointerMap_get(a, heap[root].seq[1]).num = 1
           /\ PointerMap_get(a, heap[root].seq[2]).num = 2

----------------------------------------------------------------------------
\* The changes that give an edge map a tag its reader does not expect.
Retags == {"self.retag", "seq.retag", "lnk.retag"}

\* C7: deserialize returns a tree exactly when decoding, link restoration
\* and the well-formedness check have all succeeded; a wrong tag fails the
\* decoding, a link to an identifier of no node fails the restoration, a
\* failure of any stage returns no tree, and a returned tree is well-formed.
C7_DeserializeStages ==
    res.op = "deserialize" =>
        /\ res.returned <=> res.stage = "done"
        /\ res.returned => (res.err = "ok" /\ WellFormed(res.tree, res.root))
        /\ ~res.returned => (res.err # "ok" /\ res.tree = <<>> /\ res.root = Nil)
        /\ res.change.what \in Retags => (res.stage = "decode" /\ res.err = "SchemaError")
        /\ (res.change.what = "lnk.relink" /\ res.change.v = FreshId) =>
               (res.stage = "restore" /\ res.err = "StructuralError")
        /\ res.stage \in {"decode", "restore"} => res.restored = <<>>
        /\ res.stage = "check" => res.err \in NotWellFormed

\* A document that decodes and whose links are restored, rejected by the
\* final check, and no tree returned.
C7_Witness ==
    /\ res.op = "deserialize"
    /\ res.stage = "check"
    /\ res.restored # <<>>
    /\ res.ids.links # <<>>
    /\ ~res.returned
    /\ res.tree = <<>>

\* C8: serialize of a structure that is not well-formed fails with a
\* NotWellFormed before the encoding is started, with nothing written.
C8_SerializeChecksFirst ==
    (res.op = "serialize" /\ ~WellFormed(heap, root)) =>
        (res.err \in NotWellFormed /\ ~res.started /\ res.doc = NoDoc)

\* serialize rejected a structure whose only fault, a dangling link, is
\* found by the completeness pass.
C8_Witness ==
    /\ res.op = "serialize"
    /\ Dangling(heap, root)
    /\ MandatoryFilled(heap, root)
    /\ ~Aliased(heap, root)
    /\ res.err = "LinkNotFound"
    /\ ~res.started

\* C9: once the restoration pass has succeeded, the link of every pending
\* entry targets the node registered under the entry's identifier, and in
\* the decoded structure, before the pass, every link is empty.
C9_LinksRestored ==
    (res.op = "deserialize" /\ res.stage # "decode") =>
        /\ \A n \in DOMAIN res.decoded : res.decoded[n].lnk = Nil
        /\ res.stage \in {"check", "done"} =>
               \A j \in 1..Len(res.ids.links) :
                   res.restored[res.ids.links[j][1]].lnk
                       = NodeAt(res.ids.nodes, res.ids.links[j][2])

\* A returned tree in which a node links to its child, registered before
\* the link was queued, and the child links to its parent, registered after.
C9_Witness ==
    /\ res.op = "deserialize"
    /\ res.returned
    /\ Len(res.ids.links) = 2
    /\ \E m, n \in DOMAIN res.tree :
           /\ n \in Owned(res.tree, m)
           /\ res.decoded[m].lnk = Nil /\ res.decoded[n].lnk = Nil
           /\ res.tree[m].lnk = n /\ res.tree[n].lnk = m

\* The pending links whose identifier no node is registered under.
Unregistered(ids) == {j \in 1..Len(ids.links) : ids.links[j][2] \notin Registered(ids.nodes)}

\* C10: a decoded document with a pending link to an identifier that no node
\* is registered under fails in the restoration with a structural error, and
\* deserialize returns no tree.
C10_MissingIdFails ==
    (res.op = "deserialize" /\ res.stage # "decode" /\ Unregistered(res.ids) # {}) =>
        /\ res.stage = "restore"
        /\ res.err = "StructuralError"
        /\ ~res.returned
        /\ res.tree = <<>>

\* A document whose optional link names an identifier of no node: the
\* restoration failed and nothing was returned.
C10_Witness ==
    /\ res.op = "deserialize"
    /\ res.stage = "restore"
    /\ res.err = "StructuralError"
    /\ Unregistered(res.ids) # {}
    /\ \E j \in Unregistered(res.ids) : LnkKind(res.decoded[res.ids.links[j][1]].cls) = "OptLink"
    /\ ~res.returned

----------------------------------------------------------------------------
\* The @T tag the wire format gives each edge kind.
TagOf(kind) ==
    CASE kind = "Maybe" -> "?" [] kind = "One" -> "1" [] kind = "Any" -> "*"
      [] kind = "Many" -> "+" [] kind = "OptLink" -> "@" [] kind = "Link" -> "$"

\* C11: serializing a well-formed structure succeeds, and in the document
\* an empty optional link is the map with @T = "@" alone, a filled one the
\* map with @T = "@" and @l = the sequence id of its target.
C11_OptLinkEncoding ==
    (res.op = "serialize" /\ WellFormed(heap, root)) =>
        /\ res.err = "ok"
        /\ \A p \in DocNodes(heap, root, res.doc) :
               LnkKind(heap[p[1]].cls) = "OptLink" =>
                   p[2].lnk = IF OptLink_empty(heap[p[1]].lnk) THEN [T |-> "@"]
                              ELSE [T |-> "@", l |-> Pos(PreOrder(heap, root), heap[p[1]].lnk)]

RECURSIVE WrongTag(_, _)
\* Some map of the document e, read as an edge of the given kind, carries
\* another tag than the kind's.
WrongTag(e, kind) ==
    \/ e.T # TagOf(kind)
    \/ /\ e.t # "null"
       /\ \/ e.lnk.T # TagOf(LnkKind(e.t))
          \/ IF SubKind(e.t) # "none" THEN WrongTag(e.sub, SubKind(e.t))
             ELSE \/ e.seq.T # TagOf(SeqKind(e.t))
                  \/ \E j \in 1..Len(e.seq.d) : WrongTag(e.seq.d[j], "One")

\* C12: deserialize fails with the schema error exactly when some map of
\* the document carries another @T than its edge kind's; the schema error is
\* no NotWellFormed, it is raised while decoding, and no tree is returned.
C12_TagChecked ==
    res.op = "deserialize" =>
        /\ WrongTag(res.input, "Maybe") <=> res.err = "SchemaError"
        /\ res.err = "SchemaError" =>
               /\ res.err \notin NotWellFormed
               /\ res.stage = "decode"
               /\ ~res.returned
               /\ res.tree = <<>> /\ res.root = Nil

\* A document in which only the tag of a link differs from its kind's,
\* rejected with the schema error.
C12_Witness ==
    /\ res.op = "deserialize"
    /\ res.change.what = "lnk.retag"
    /\ WrongTag(res.input, "Maybe")
    /\ res.err = "SchemaError"
    /\ ~res.returned

RECURSIVE Encodes(_, _, _, _, _)
\* The map e is the encoding of the owning edge v of the given kind, with
\* the sequence ids of ids.
Encodes(h, v, kind, e, ids) ==
    IF v = Nil THEN e = [T |-> TagOf(kind), t |-> "null"]
    ELSE /\ DOMAIN e = {"T", "i", "t", "data", "lnk"}
                       \cup (IF SubKind(h[v].cls) # "none" THEN {"sub"} ELSE {"seq"})
         /\ e.T = TagOf(kind)
         /\ e.i = Pos(ids, v)
         /\ e.t = h[v].cls
         /\ e.data = h[v].data
         /\ ~OptLink_empty(h[v].lnk) =>
                e.lnk = [T |-> TagOf(LnkKind(h[v].cls)), l |-> Pos(ids, h[v].lnk)]
         /\ IF SubKind(h[v].cls) # "none"
            THEN Encodes(h, h[v].sub, SubKind(h[v].cls), e.sub, ids)
            ELSE /\ DOMAIN e.seq = {"T", "d"}
                 /\ e.seq.T = TagOf(SeqKind(h[v].cls))
                 /\ Len(e.seq.d) = Len(h[v].seq)
                 /\ \A j \in 1..Len(h[v].seq) : Encodes(h, h[v].seq[j], "One", e.seq.d[j], ids)

\* C13: in a document serialize produces, an empty optional-one edge is the
\* map with @T = "?" and a null @t alone, a filled edge carries its kind's tag,
\* @i = its node's sequence id and the node's fields, a sequence carries "*"
\* or "+" and in @d one map per element in order, and a filled link carries
\* its kind's tag and @l = the sequence id of its target.
C13_TagFidelity ==
    (res.op = "serialize" /\ res.err = "ok") =>
        Encodes(heap, root, "Maybe", res.doc, PreOrder(heap, root))

\* A document with a one-or-more sequence of two exactly-one elements, an
\* empty optional-one edge, and filled optional and mandatory links.
C13_Witness ==
    /\ res.op = "serialize"
    /\ res.err = "ok"
    /\ res.doc.T = "?" /\ res.doc.t = "Block" /\ res.doc.i = 0
    /\ res.doc.seq.T = "+"
    /\ Len(res.doc.seq.d) = 2
    /\ res.doc.seq.d[1].T = "1" /\ res.doc.seq.d[1].i = 1 /\ res.doc.seq.d[1].t = "Leaf"
    /\ res.doc.seq.d[1].seq = [T |-> "*", d |-> <<>>]
    /\ res.doc.seq.d[2].T = "1" /\ res.doc.seq.d[2].i = 2 /\ res.doc.seq.d[2].t = "Ref"
    /\ res.doc.seq.d[2].sub = [T |-> "?", t |-> "null"]
    /\ res.doc.seq.d[2].lnk = [T |-> "$", l |-> 1]
    /\ res.doc.lnk = [T |-> "@", l |-> 2]

----------------------------------------------------------------------------
\* C14: is_well_formed() returns true exactly when the structure is
\* well-formed, false exactly when check_well_formed() on it raises a
\* NotWellFormed, and raises nothing itself.
C14_IsWellFormed ==
    res.op = "is_well_formed" =>
        /\ res.err = "ok"
        /\ res.val <=> WellFormed(heap, root)
        /\ res.val <=> check_well_formed(heap, root) = "ok"
        /\ ~res.val <=> check_well_formed(heap, root) \in NotWellFormed

\* is_well_formed() returned false for a structure whose mandatory link is
\* empty, and raised nothing.
C14_Witness ==
    /\ res.op = "is_well_formed"
    /\ ~res.val
    /\ res.err = "ok"
    /\ check_well_formed(heap, root) = "EmptyLink"

\* What a validation call told its caller: the structure passed or not.
Passed(r) == IF r.op = "is_well_formed" THEN r.val ELSE r.err = "ok"

----------------------------------------------------------------------------
\* C16: a node exists only while the root edge, the user's handle or an
\* owning edge of an existing node holds it; a link targets an existing node
\* or is unset or expired, and an expired link, though never reset, reports
\* empty() = true and size() = 0 and fails deref() with OutOfRange.
C16_WeakLinks ==
    /\ \A n \in Live(heap) : n = root \/ n = x \/ \E m \in Live(heap) : n \in Owned(heap, m)
    /\ \A p \in Live(heap) : heap[p].lnk \in Nodes => heap[p].lnk \in Live(heap)
    /\ (res.op = "link.empty" /\ heap[x].lnk = Expired) => res.val = TRUE
    /\ (res.op = "link.size" /\ heap[x].lnk = Expired) => res.val = 0
    /\ (res.op = "link.deref" /\ heap[x].lnk = Expired) => (res.err = "OutOfRange" /\ res.val = Nil)
    /\ (res.op = "link.empty" /\ heap[x].lnk \in Nodes) => res.val = FALSE
    /\ (res.op = "link.size" /\ heap[x].lnk \in Nodes) => res.val = 1
    /\ (res.op = "link.deref" /\ heap[x].lnk \in Nodes) => (res.err = "ok" /\ res.val = heap[x].lnk)

\* deref() failed on a link whose target was destroyed, in a structure that
\* still holds two nodes.
C16_Witness ==
    /\ res.op = "link.deref"
    /\ heap[x].lnk = Expired
    /\ res.err = "OutOfRange"
    /\ Cardinality(Live(heap)) >= 2

----------------------------------------------------------------------------
\* C17: add(ob, pos) of a non-empty ob puts ob at index pos when
\* 0 <= pos < size and at the end otherwise, grows the sequence by one and
\* keeps the elements that were there in their order, those from index pos
\* on one place up; add of an empty edge leaves the sequence as it was.
C17_AddAtPosition ==
    res.op = "add" =>
        LET old == res.old
            new == heap[root].seq
            k == IF 0 <= res.pos /\ res.pos < Len(old) THEN res.pos ELSE Len(old)
        IN  IF res.ob = Nil THEN new = old
            ELSE /\ Len(new) = Len(old) + 1
                 /\ new[k + 1] = res.ob
                 /\ \A j \in 1..Len(old) : new[IF j <= k THEN j ELSE j + 1] = old[j]

\* A node was added in the middle of a sequence of three different slots.
C17_Witness ==
    /\ res.op = "add"
    /\ res.pos = 1
    /\ Len(res.old) = 3
    /\ Cardinality(Range(res.old)) = 3
    /\ res.ob # Nil
    /\ heap[root].seq = <<res.old[1], res.ob, res.old[2], res.old[3]>>

\* C18: at(i) and operator[] with i >= size raise OutOfRange and leave the
\* sequence as it was, and return the element at index i otherwise; front()
\* and back() return the elements at index 0 and size - 1, or an empty edge
\* for an empty sequence, and never raise.
C18_AtFrontBack ==
    /\ res.op \in {"at", "front", "back"} => heap[root].seq = res.old
    /\ res.op = "at" =>
           IF res.index >= Len(res.old) THEN res.err = "OutOfRange"
           ELSE res.err = "ok" /\ res.val = res.old[res.index + 1]
    /\ res.op = "front" =>
           /\ res.err = "ok"
           /\ res.val = IF Len(res.old) = 0 THEN Nil ELSE res.old[1]
    /\ res.op = "back" =>
           /\ res.err = "ok"
           /\ res.val = IF Len(res.old) = 0 THEN Nil ELSE res.old[Len(res.old)]

\* at(size) raised OutOfRange on a sequence of two elements, which is
\* unchanged.
C18_Witness ==
    /\ res.op = "at"
    /\ Len(res.old) = 2
    /\ res.index = 2
    /\ res.err = "OutOfRange"
    /\ heap[root].seq = res.old

----------------------------------------------------------------------------
\* C19: copy() and clone() of a sequence return a sequence of the same size
\* whose i-th element is empty where the source's is, and otherwise a new
\* object that duplicates the source's i-th element and appears nowhere else;
\* the source is left as it was.
C19_CopyPerElement ==
    res.op \in {"copy", "clone"} =>
        /\ heap[root].seq = res.old
        /\ Len(res.val) = Len(res.old)
        /\ \A i \in 1..Len(res.old) :
               IF res.old[i] = Nil THEN res.val[i] = Nil
               ELSE /\ res.val[i] \notin Nodes \cup {Nil}
                    /\ res.made[res.val[i] - MaxNodes] = res.old[i]
                    /\ \A j \in 1..Len(res.val) : res.val[j] = res.val[i] => j = i

----------------------------------------------------------------------------
RECURSIVE ValueEq(_, _, _)
\* Recursive value equality of two nodes: the same class and content, owning
\* edges both empty or both on nodes that are the same or value-equal, and
\* links that resolve to the same node or to none.
ValueEq(h, a, b) ==
    /\ h[a].cls = h[b].cls /\ h[a].data = h[b].data
    /\ (h[a].sub = Nil) = (h[b].sub = Nil)
    /\ (h[a].sub # Nil /\ h[a].sub # h[b].sub) => ValueEq(h, h[a].sub, h[b].sub)
    /\ Len(h[a].seq) = Len(h[b].seq)
    /\ \A j \in 1..Len(h[a].seq) :
           /\ (h[a].seq[j] = Nil) = (h[b].seq[j] = Nil)
           /\ (h[a].seq[j] # Nil /\ h[a].seq[j] # h[b].seq[j]) => ValueEq(h, h[a].seq[j], h[b].seq[j])
    /\ IF h[a].lnk \in Nodes /\ h[b].lnk \in Nodes THEN h[a].lnk = h[b].lnk
       ELSE h[a].lnk \notin Nodes /\ h[b].lnk \notin Nodes

\* C20: two empty owning edges are equal, an empty and a filled one are not,
\* two edges on the same node are equal, two edges on different nodes are
\* equal exactly when the nodes are value-equal; two links are equal exactly
\* when they resolve to the same node or both to none (unset or expired).
C20_Equality ==
    /\ res.op = "eq" =>
           /\ (res.a = Nil /\ res.b = Nil) => res.val
           /\ ((res.a = Nil) # (res.b = Nil)) => ~res.val
           /\ (res.a # Nil /\ res.a = res.b) => res.val
           /\ (res.a # Nil /\ res.b # Nil /\ res.a # res.b) => (res.val <=> ValueEq(heap, res.a, res.b))
    /\ res.op = "link.eq" =>
           /\ (res.a \in Nodes /\ res.b \in Nodes) => (res.val <=> res.a = res.b)
           /\ (res.a \notin Nodes /\ res.b \notin Nodes) => res.val
           /\ ((res.a \in Nodes) # (res.b \in Nodes)) => ~res.val

\* Two different nodes whose children are different but value-equal nodes
\* compared equal.
C20_Witness ==
    /\ res.op = "eq"
    /\ res.a # Nil /\ res.b # Nil /\ res.a # res.b
    /\ heap[res.a].sub # Nil /\ heap[res.b].sub # Nil
    /\ heap[res.a].sub # heap[res.b].sub
    /\ res.val

----------------------------------------------------------------------------
\* A sequence edge of node m holds an empty element slot.
EmptySlotAt(h, m) == SeqKind(h[m].cls) # "none" /\ Nil \in Range(h[m].seq)

\* C21: a sequence reached from the root that holds an empty element slot
\* makes check_well_formed() fail with a NotWellFormed, for a one-or-more and
\* for a zero-or-more sequence alike.
C21_EmptySlotFails ==
    (res.op = "check_well_formed" /\ \E m \in OwnReach(heap, root) : EmptySlotAt(heap, m))
        => res.err \in NotWellFormed

\* A structure rejected for the empty slot of a zero-or-more sequence, with
\* nothing else wrong.
C21_Witness ==
    /\ res.op = "check_well_formed"
    /\ res.err = "EmptyOne"
    /\ ~Aliased(heap, root)
    /\ ~Dangling(heap, root)
    /\ \E m \in OwnReach(heap, root) : SeqKind(heap[m].cls) = "Any" /\ EmptySlotAt(heap, m)
    /\ \A m \in OwnReach(heap, root) :
           /\ ~EmptyManyAt(heap, m)
           /\ ~EmptyLinkAt(heap, m)
           /\ ~(SubKind(heap[m].cls) = "One" /\ heap[m].sub = Nil)
           /\ SeqKind(heap[m].cls) = "Many" => ~EmptySlotAt(heap, m)

----------------------------------------------------------------------------
\* The structure with every expired link unset.
Unset(h) == [n \in DOMAIN h |-> IF h[n].lnk = Expired THEN [h[n] EXCEPT !.lnk = Nil] ELSE h[n]]

ExpiredAt(h, m, kind) == LnkKind(h[m].cls) = kind /\ h[m].lnk = Expired

\* C22: check_well_formed() gives for a structure with expired links what it
\* gives for the same structure with these links unset: expired optional
\* links do not make it fail, and an expired mandatory link makes it fail,
\* as an empty mandatory edge when nothing else is wrong.
C22_ExpiredLikeUnset ==
    res.op = "check_well_formed" =>
        /\ res.err = check_well_formed(Unset(heap), root)
        /\ WellFormed(Unset(heap), root) => res.err = "ok"
        /\ (\E m \in OwnReach(heap, root) : ExpiredAt(heap, m, "Link")) => res.err \in NotWellFormed
        /\ ( /\ \E m \in OwnReach(heap, root) : ExpiredAt(heap, m, "Link")
             /\ ~Aliased(heap, root)
             /\ ~Dangling(heap, root)
             /\ \A m \in OwnReach(heap, root) : ~EmptyOneAt(heap, m) /\ ~EmptyManyAt(heap, m) )
           => res.err = "EmptyLink"

\* An accepted structure that holds an expired optional link.
C22_Witness ==
    /\ res.op = "check_well_formed"
    /\ res.err = "ok"
    /\ \E m \in OwnReach(heap, root) : ExpiredAt(heap, m, "OptLink")

----------------------------------------------------------------------------
\* Some node under r holds itself, directly or through other nodes.
Cyclic(h, r) == \E n \in OwnReach(h, r) : n \in OwnClosure(h, Owned(h, n))

\* The outcome of the call as a whole.
Outcome(op) ==
    IF op = "serialize" THEN serialize(heap, root).err ELSE check_well_formed(heap, root)

\* C23: every call of check_well_formed(), is_well_formed() and serialize
\* finishes, with success or with an error, on every structure, ownership
\* cycles included: no node is registered twice, a structure with an
\* ownership cycle is refused for the duplicate node, and the call ends with
\* the outcome of the whole traversal.
C23_Terminates ==
    /\ [](\A i, j \in 1..Len(res.st.ids) : res.st.ids[i] = res.st.ids[j] => i = j)
    /\ []((res.pc = "done" /\ Cyclic(heap, root)) => res.why = "DuplicateNode")
    /\ [](res.pc = "done" =>
              /\ res.why = Outcome(res.op)
              /\ res.val = (res.why = "ok")
              /\ res.err = IF res.op = "is_well_formed" THEN "ok" ELSE res.why)
    /\ (res.pc \in {"find", "check", "write"}) ~> (res.pc = "done")

\* A call that ended on the second visit of a node which holds itself
\* through another node.
C23_Witness ==
    /\ res.pc = "done"
    /\ res.why = "DuplicateNode"
    /\ \E n \in OwnReach(heap, root) :
           /\ n \notin Owned(heap, n)
           /\ n \in OwnClosure(heap, Owned(heap, n))
           /\ \A m \in OwnReach(heap, root) : InDegree(heap, root, m) >= 2 => m = n

====
